---- MODULE Spec2Model ----
(***************************************************************************)
(* A model of golf-game.py: the GolfGame engine (construction, deal, the   *)
(* round loop, scoring and ranking) and the turn protocol of the three     *)
(* player strategies (HumanPlayer, RandomPlayer, GreedyPlayer).            *)
(*                                                                         *)
(* A card is the string "<RANK>-<SUIT>" in the source; here it is the pair *)
(* <<rank, suit>> of its two fields, so that card.split('-')[0] is the     *)
(* first component.  Hand slots are numbered 0..3 as in the source; slot i *)
(* of a hand is element i + 1 of the sequence.                             *)
(***************************************************************************)
EXTENDS Integers, Sequences, FiniteSets, TLC

VARIABLES
    pc,               \* "new" | "ctor_failed" | "constructed" | "aborted" | "playing" | "crashed" | "done"
    num_players,      \* argument of GolfGame.__init__
    given,            \* whether the players argument is a list (FALSE: None)
    arg_players,      \* the players argument: a sequence of objects [cls, name]
    attrs,            \* the attributes __init__ has set on the game object
    assigned,         \* assigned[i]: arg_players[i].game has been set
    players,          \* self.players
    deck,             \* self.deck, top of the stack is the last element
    discard_pile,     \* self.discard_pile, top is the last element
    is_game_over,     \* self.is_game_over
    hand,             \* hand[i]: the hand of player i
    face_up_indices,  \* face_up_indices[i]: the revealed slots of player i
    cur,              \* position of the for loop of play_game: the player to move
    turn_count,       \* turn_count of play_game (passes of the while loop)
    step,             \* position inside make_move: "choose" | "place", and for a
                      \* Human at a slot prompt "swap_prompt" | "turn_prompt"
    action,           \* the action chosen in the current turn
    drawn_card,       \* the card obtained in the current turn
    result,           \* what play_game / end_game returned
    err,              \* the exception raised, "none" when there is none
    turns,            \* number of make_move calls completed
    draws,            \* cards popped from the deck by draws since the start or the last reshuffle
    reshuffles,       \* number of reshuffles performed
    rng,              \* the state of the generator behind random.choice
    swap_idx,         \* the local swap_idx of a Human's slot prompt loop
    entered           \* the last line read by input() at a slot prompt

vars == <<pc, num_players, given, arg_players, attrs, assigned, players, deck,
          discard_pile, is_game_over, hand, face_up_indices, cur, turn_count,
          step, action, drawn_card, result, err, turns, draws, reshuffles, rng,
          swap_idx, entered>>

(***************************************************************************)
(* Bounds of the model.                                                    *)
(***************************************************************************)
\* random.shuffle ranges over this many permutations.
NumShuffles == 2
\* The generator behind random.shuffle and random.choice(face_down_indices)
\* starts in one of NumSeeds states (the slot a Human enters ranges over all
\* face-down slots, and random.choice over actions over all of them).
NumSeeds == 2
\* num_players ranges over 1..MaxCount.
MaxCount == 5
\* make_move is called at most MaxTurns times.
MaxTurns == 14
\* Hands scored directly take their ranks among the first NumPoolRanks of RankPool.
NumPoolRanks == 6
\* A table handed to make_move by a caller has at most MaxTableDeck cards in its deck.
MaxTableDeck == 2

(***************************************************************************)
(* Cards and the deck.                                                     *)
(***************************************************************************)
Numerals == <<"0", "1", "2", "3", "4", "5", "6", "7", "8", "9", "10">>

\* str(i)
Str(i) == Numerals[i + 1]

\* value.isdigit()
IsDigit(s) == \E i \in 0..(Len(Numerals) - 1) : Numerals[i + 1] = s

\* int(value)
IntOf(s) == CHOOSE i \in 0..(Len(Numerals) - 1) : Numerals[i + 1] = s

card_values == [i \in 1..9 |-> Str(i + 1)] \o <<"J", "Q", "K", "A">>

suits == <<"H", "D", "C", "S">>

\* f"{value}-{suit}"
Card(value, suit) == <<value, suit>>

\* card.split('-')[0]
RankOf(card) == card[1]

\* A deck built for the first suit only.
OrderedDeckOneSuit == [i \in 1..Len(card_values) |-> Card(card_values[i], suits[1])]

\* The deck before it is shuffled: for value in card_values for suit in suits.
OrderedDeck ==
    [i \in 1..(Len(card_values) * Len(suits)) |->
        Card(card_values[((i - 1) \div Len(suits)) + 1], suits[((i - 1) % Len(suits)) + 1])]

RECURSIVE GCD(_, _)
GCD(a, b) == IF b = 0 THEN a ELSE GCD(b, a % b)

\* The k-th stride: the least odd-numbered candidate from 2k - 1 on that is coprime to m.
Stride(m, k) ==
    CHOOSE t \in (2 * k - 1)..(2 * k - 1 + m) :
        /\ GCD(t, m) = 1
        /\ \A u \in (2 * k - 1)..(t - 1) : GCD(u, m) # 1

\* The generator's next state: a linear congruential step of full period.
NextRandom(r) == (5 * r + 3) % 16

\* Which permutation random.shuffle applies with the generator in state r.
ShuffleIndex(r) == (r % NumShuffles) + 1

\* random.shuffle(s): the k-th permutation of s.
Shuffle(s, k) ==
    IF Len(s) = 0 THEN s
    ELSE [i \in 1..Len(s) |-> s[(((i - 1) * Stride(Len(s), k) + 5 * k) % Len(s)) + 1]]

Last(s) == s[Len(s)]

Front(s) == SubSeq(s, 1, Len(s) - 1)

\* The number of times card c occurs in sequence s.
Occurrences(s, c) == Cardinality({i \in 1..Len(s) : s[i] = c})

(***************************************************************************)
(* Scoring.                                                                *)
(***************************************************************************)
GetCardValue(card) ==
    LET value == RankOf(card)
    IN  IF IsDigit(value) THEN IntOf(value)
        ELSE IF value \in {"J", "Q", "A"} THEN 10
        ELSE IF value = "K" THEN 0
        ELSE 0

RECURSIVE SumOver(_, _)
SumOver(S, f) ==
    IF S = {} THEN 0
    ELSE LET x == CHOOSE y \in S : TRUE IN f[x] + SumOver(S \ {x}, f)

\* An entry of value_counts that counts for nothing from two cards on.
ScoreOfCountPairsOnly(value, count) ==
    IF count >= 2 THEN 0 ELSE GetCardValue(Card(value, "X"))

\* What one entry (value, count) of value_counts adds to total_score.
ScoreOfCount(value, count) ==
    IF count = 2 THEN 0
    ELSE IF count > 2
         THEN LET remaining_cards == count % 2
              IN  IF remaining_cards > 0
                  THEN GetCardValue(Card(value, "X")) * remaining_cards
                  ELSE 0
         ELSE GetCardValue(Card(value, "X"))

\* A score in which only neighbouring cards of the same rank cancel.
CalculateScoreNeighbours(h) ==
    LET vals == [i \in 1..Len(h) |-> RankOf(h[i])]
        alone(i) == /\ (i > 1 => vals[i - 1] # vals[i])
                    /\ (i < Len(h) => vals[i + 1] # vals[i])
        live == {i \in 1..Len(h) : alone(i)}
    IN  SumOver(live, [i \in live |-> GetCardValue(h[i])])

\* _calculate_score(player), h the player's hand.
CalculateScore(h) ==
    LET vals == [i \in 1..Len(h) |-> RankOf(h[i])]
        valueSet == {vals[i] : i \in 1..Len(h)}
        value_counts == [v \in valueSet |-> Cardinality({i \in 1..Len(h) : vals[i] = v})]
    IN  SumOver(valueSet, [v \in valueSet |-> ScoreOfCount(v, value_counts[v])])

\* The place of entry i after a sort that puts entries of equal score in
\* reverse order.
PlaceReversingTies(s, i) ==
    Cardinality({j \in 1..Len(s) : s[j][2] < s[i][2]})
        + Cardinality({j \in 1..Len(s) : j > i /\ s[j][2] = s[i][2]}) + 1

\* The place of entry i of s after list.sort(key=lambda x: x[1]): the sort is
\* ascending by the second field and stable.
PlaceAfterSort(s, i) ==
    Cardinality({j \in 1..Len(s) : s[j][2] < s[i][2]})
        + Cardinality({j \in 1..Len(s) : j < i /\ s[j][2] = s[i][2]}) + 1

\* final_scores.sort(key=lambda x: x[1])
SortByScore(s) ==
    [k \in 1..Len(s) |-> s[CHOOSE i \in 1..Len(s) : PlaceAfterSort(s, i) = k]]

(***************************************************************************)
(* Players and the arguments of the constructor.                           *)
(***************************************************************************)
PlayerClasses == {"HumanPlayer", "RandomPlayer", "GreedyPlayer"}

\* isinstance(player, Player)
IsPlayer(o) == o.cls \in PlayerClasses

PlayerNames == <<"Alice", "Bob", "Carol", "Dave", "Eve">>

\* The objects a caller builds: classes[i](PlayerNames[i]); "str" is an object
\* that is no Player.
Team(classes) == [i \in 1..Len(classes) |-> [cls |-> classes[i], name |-> PlayerNames[i]]]

\* The player lists a caller passes to GolfGame.
ArgLists ==
    { Team(<<"RandomPlayer", "RandomPlayer">>),
      Team(<<"HumanPlayer", "GreedyPlayer">>),
      Team(<<"GreedyPlayer", "GreedyPlayer">>),
      Team(<<"GreedyPlayer", "RandomPlayer", "GreedyPlayer">>),
      Team(<<"GreedyPlayer", "GreedyPlayer", "HumanPlayer", "GreedyPlayer">>),
      Team(<<"RandomPlayer">>),
      Team(<<"RandomPlayer", "str">>),
      Team(<<"str", "GreedyPlayer">>),
      Team(<<"GreedyPlayer", "GreedyPlayer", "GreedyPlayer", "GreedyPlayer", "GreedyPlayer">>) }

\* Player.__init__(self, name), reached as cls(*args): whether the call binds.
PlayerInitBinds(args) == Len(args) = 1

\* One loop that checks and assigns each element in turn.
ValidateAndAssignOneLoop(ps, asg) ==
    IF \E i \in 1..Len(ps) : ~IsPlayer(ps[i])
    THEN [err |-> "TypeError",
          assigned |-> [i \in 1..Len(ps) |-> \A j \in 1..i : IsPlayer(ps[j])]]
    ELSE [err |-> "none", assigned |-> [i \in 1..Len(ps) |-> TRUE]]

\* The two loops over a given player list: every element is checked before any
\* player is assigned to the game.
ValidateAndAssign(ps, asg) ==
    IF \E i \in 1..Len(ps) : ~IsPlayer(ps[i])
    THEN [err |-> "TypeError", assigned |-> asg]
    ELSE [err |-> "none", assigned |-> [i \in 1..Len(ps) |-> TRUE]]

NoCard == <<"None", "None">>

Init ==
    /\ pc = "new"
    /\ num_players \in 1..MaxCount
    /\ given \in BOOLEAN
    /\ arg_players \in (IF given THEN ArgLists ELSE {<<>>})
    /\ attrs = {}
    /\ assigned = [i \in 1..Len(arg_players) |-> FALSE]
    /\ players = <<>>
    /\ deck = <<>>
    /\ discard_pile = <<>>
    /\ is_game_over = FALSE
    /\ hand = [i \in 1..Len(arg_players) |-> <<>>]
    /\ face_up_indices = [i \in 1..Len(arg_players) |-> {}]
    /\ cur = 0
    /\ turn_count = 0
    /\ step = "choose"
    /\ action = "none"
    /\ drawn_card = NoCard
    /\ result = <<>>
    /\ err = "none"
    /\ turns = 0
    /\ draws = 0
    /\ reshuffles = 0
    /\ rng \in 0..(NumSeeds - 1)
    /\ swap_idx = -1
    /\ entered = ""

\* Whether __init__ gets as far as its loops over the given player list.
ReachesPlayerLoops ==
    /\ 2 <= num_players /\ num_players <= 4
    /\ given
    /\ Len(arg_players) = num_players

\* What GolfGame.__init__ raises before it sets any attribute, "none" if nothing.
InitError ==
    IF ~(2 <= num_players /\ num_players <= 4) THEN "ValueError"
    ELSE IF given /\ Len(arg_players) # num_players THEN "ValueError"
    ELSE IF ~given
         THEN \* HumanPlayer(f"Player {i+1}", self)
              IF PlayerInitBinds(<<"Player 1", "self">>) THEN "none" ELSE "TypeError"
         ELSE ValidateAndAssign(arg_players, assigned).err

\* GolfGame.__init__
Construct ==
    /\ pc = "new"
    /\ assigned' = IF ReachesPlayerLoops
                   THEN ValidateAndAssign(arg_players, assigned).assigned
                   ELSE assigned
    /\ IF InitError # "none"
       THEN /\ pc' = "ctor_failed"
            /\ err' = InitError
            /\ UNCHANGED <<attrs, players, deck, hand, face_up_indices, rng>>
       ELSE /\ pc' = "constructed"
            /\ err' = "none"
            /\ players' = IF given THEN arg_players
                          ELSE [i \in 1..num_players |-> [cls |-> "HumanPlayer", name |-> PlayerNames[i]]]
            /\ hand' = IF given THEN hand ELSE [i \in 1..num_players |-> <<>>]
            /\ face_up_indices' = IF given THEN face_up_indices ELSE [i \in 1..num_players |-> {}]
            /\ deck' = Shuffle(OrderedDeck, ShuffleIndex(rng))
            /\ rng' = NextRandom(rng)
            /\ attrs' = {"players", "deck", "discard_pile", "is_game_over"}
    /\ UNCHANGED <<num_players, given, arg_players, discard_pile, is_game_over, cur,
                   turn_count, step, action, drawn_card, result, turns, draws, reshuffles,
                   swap_idx, entered>>

(***************************************************************************)
(* The deal and the start of a round.                                      *)
(***************************************************************************)
\* _deal_cards from player i on: four pops per player; a pop from an empty
\* deck raises IndexError and leaves that player's hand as it was.
RECURSIVE DealCards(_, _, _, _)
DealCards(i, d, h, f) ==
    IF i > Len(h) THEN [ok |-> TRUE, deck |-> d, hand |-> h, face_up |-> f]
    ELSE IF Len(d) < 4 THEN [ok |-> FALSE, deck |-> <<>>, hand |-> h, face_up |-> f]
    ELSE DealCards(i + 1,
                   SubSeq(d, 1, Len(d) - 4),
                   [h EXCEPT ![i] = <<d[Len(d)], d[Len(d) - 1], d[Len(d) - 2], d[Len(d) - 3]>>],
                   [f EXCEPT ![i] = {}])

\* play_game up to the round loop, called on a game in state at: the deal and
\* the seeding of the discard pile.
PlayGameCall(at) ==
    /\ pc = at
    /\ LET dealt == DealCards(1, deck, hand, face_up_indices)
       IN  /\ hand' = dealt.hand
           /\ face_up_indices' = dealt.face_up
           /\ IF ~dealt.ok
              THEN /\ pc' = "crashed"
                   /\ err' = "IndexError:deal"
                   /\ deck' = dealt.deck
                   /\ UNCHANGED <<discard_pile, cur, turn_count>>
              ELSE IF dealt.deck = <<>>
              THEN /\ pc' = "aborted"
                   /\ deck' = dealt.deck
                   /\ UNCHANGED <<err, discard_pile, cur, turn_count>>
              ELSE /\ pc' = "playing"
                   /\ discard_pile' = Append(discard_pile, Last(dealt.deck))
                   /\ deck' = Front(dealt.deck)
                   /\ cur' = 1
                   /\ turn_count' = IF is_game_over THEN 0 ELSE 1
                   /\ UNCHANGED err
    /\ result' = <<>>
    /\ UNCHANGED <<num_players, given, arg_players, attrs, assigned, players, is_game_over,
                   step, action, drawn_card, turns, draws, reshuffles, rng, swap_idx, entered>>

\* play_game on a game just constructed.
PlayGame == PlayGameCall("constructed")

\* play_game called again on a game whose earlier call has returned.
PlayGameAgain == PlayGameCall("done")

(***************************************************************************)
(* A turn: make_move.  The three strategies share the turn protocol and    *)
(* the bodies of _draw_or_take_card; they differ in how they decide.       *)
(***************************************************************************)
Min(a, b) == IF a < b THEN a ELSE b

\* [i for i in range(4) if i not in face_up], in ascending order.
FaceDownIndices(face_up) == SelectSeq(<<0, 1, 2, 3>>, LAMBDA i : i \notin face_up)

\* random.choice(face_down_indices) with the generator in state r.
RandomChoice(fd, r) == {fd[(r % Len(fd)) + 1]}

\* GreedyPlayer._swap_card with its comparison turned round: the first
\* face-down slot of the lowest value.
GreedySwapIdxLowest(h, fd) ==
    LET fdSet == {fd[j] : j \in 1..Len(fd)}
    IN  CHOOSE i \in fdSet :
            /\ \A j \in fdSet : GetCardValue(h[j + 1]) >= GetCardValue(h[i + 1])
            /\ \A j \in fdSet : j < i => GetCardValue(h[j + 1]) > GetCardValue(h[i + 1])

\* GreedyPlayer._swap_card: the first face-down slot of the highest value.
GreedySwapIdx(h, fd) ==
    LET fdSet == {fd[j] : j \in 1..Len(fd)}
    IN  CHOOSE i \in fdSet :
            /\ \A j \in fdSet : GetCardValue(h[j + 1]) <= GetCardValue(h[i + 1])
            /\ \A j \in fdSet : j < i => GetCardValue(h[j + 1]) < GetCardValue(h[i + 1])

\* GreedyPlayer._turn_card_over: the first face-down slot of the lowest value.
GreedyTurnIdx(h, fd) ==
    LET fdSet == {fd[j] : j \in 1..Len(fd)}
    IN  CHOOSE i \in fdSet :
            /\ \A j \in fdSet : GetCardValue(h[j + 1]) >= GetCardValue(h[i + 1])
            /\ \A j \in fdSet : j < i => GetCardValue(h[j + 1]) > GetCardValue(h[i + 1])

\* _choose_action of each strategy: the actions it may return.
ChooseAction(cls, top_card) ==
    IF cls = "GreedyPlayer"
    THEN IF GetCardValue(top_card) < 6 THEN {"s"} ELSE {"d"}
    ELSE {"s", "d", "t"}

\* _choose_swap_or_discard of each strategy: what it may return.  The Human's
\* answer is any string; only "s" swaps.
ChooseSwapOrDiscard(cls, card) ==
    IF cls = "GreedyPlayer"
    THEN IF GetCardValue(card) < 6 THEN {"s"} ELSE {"d"}
    ELSE IF cls = "HumanPlayer" THEN {"s", "d", ""}
    ELSE {"s", "d"}

\* A _swap_card that chooses among all four slots of the hand, face-up ones
\* included.
SwapSlotsWholeHand(cls, h, fd, r) ==
    IF fd = <<>> THEN {-1}
    ELSE IF cls = "GreedyPlayer" THEN {GreedySwapIdx(h, <<0, 1, 2, 3>>)}
    ELSE RandomChoice(<<0, 1, 2, 3>>, r)

\* The slot RandomPlayer._swap_card or GreedyPlayer._swap_card chooses.
SwapSlots(cls, h, fd, r) ==
    IF fd = <<>> THEN {-1}
    ELSE IF cls = "GreedyPlayer" THEN {GreedySwapIdx(h, fd)}
    ELSE RandomChoice(fd, r)

\* The slot RandomPlayer._turn_card_over or GreedyPlayer._turn_card_over chooses.
TurnSlots(cls, h, fd, r) ==
    IF fd = <<>> THEN {-1}
    ELSE IF cls = "GreedyPlayer" THEN {GreedyTurnIdx(h, fd)}
    ELSE RandomChoice(fd, r)

\* _draw_or_take_card whose reshuffle moves the whole discard pile, top card
\* included, into the deck.
DrawOrTakeCardMovesTop(a, d, dp, k) ==
    IF a = "d"
    THEN LET empty == (d = <<>>)
             d1 == IF empty THEN Shuffle(dp, k) ELSE d
             dp1 == IF empty THEN <<Last(dp)>> ELSE dp
         IN  IF d1 = <<>>
             THEN [err |-> "IndexError:draw", deck |-> d1, discard |-> dp1,
                   card |-> NoCard, reshuffled |-> empty]
             ELSE [err |-> "none", deck |-> Front(d1), discard |-> dp1,
                   card |-> Last(d1), reshuffled |-> empty]
    ELSE IF a = "s"
    THEN [err |-> "none", deck |-> d, discard |-> Front(dp), card |-> Last(dp),
          reshuffled |-> FALSE]
    ELSE [err |-> "none", deck |-> d, discard |-> dp, card |-> NoCard, reshuffled |-> FALSE]

\* _draw_or_take_card with the emptiness test of the deck inverted.
DrawOrTakeCardInverted(a, d, dp, k) ==
    IF a = "d"
    THEN LET refill == (d # <<>>)
             d1 == IF refill THEN Shuffle(Front(dp), k) ELSE d
             dp1 == IF refill THEN <<Last(dp)>> ELSE dp
         IN  IF d1 = <<>>
             THEN [err |-> "IndexError:draw", deck |-> d1, discard |-> dp1,
                   card |-> NoCard, reshuffled |-> refill]
             ELSE [err |-> "none", deck |-> Front(d1), discard |-> dp1,
                   card |-> Last(d1), reshuffled |-> refill]
    ELSE IF a = "s"
    THEN [err |-> "none", deck |-> d, discard |-> Front(dp), card |-> Last(dp),
          reshuffled |-> FALSE]
    ELSE [err |-> "none", deck |-> d, discard |-> dp, card |-> NoCard, reshuffled |-> FALSE]

\* _draw_or_take_card reading deck[-1] where the source pops it.
DrawOrTakeCardPeek(a, d, dp, k) ==
    IF a = "d"
    THEN LET empty == (d = <<>>)
             d1 == IF empty THEN Shuffle(Front(dp), k) ELSE d
             dp1 == IF empty THEN <<Last(dp)>> ELSE dp
         IN  IF d1 = <<>>
             THEN [err |-> "IndexError:draw", deck |-> d1, discard |-> dp1,
                   card |-> NoCard, reshuffled |-> empty]
             ELSE [err |-> "none", deck |-> d1, discard |-> dp1,
                   card |-> Last(d1), reshuffled |-> empty]
    ELSE IF a = "s"
    THEN [err |-> "none", deck |-> d, discard |-> Front(dp), card |-> Last(dp),
          reshuffled |-> FALSE]
    ELSE [err |-> "none", deck |-> d, discard |-> dp, card |-> NoCard, reshuffled |-> FALSE]

\* _draw_or_take_card whose last branch draws from the deck as well.
DrawOrTakeCardDrawsOnTurn(a, d, dp, k) ==
    IF a = "s"
    THEN [err |-> "none", deck |-> d, discard |-> Front(dp), card |-> Last(dp),
          reshuffled |-> FALSE]
    ELSE LET empty == (d = <<>>)
             d1 == IF empty THEN Shuffle(Front(dp), k) ELSE d
             dp1 == IF empty THEN <<Last(dp)>> ELSE dp
         IN  IF d1 = <<>>
             THEN [err |-> "IndexError:draw", deck |-> d1, discard |-> dp1,
                   card |-> NoCard, reshuffled |-> empty]
             ELSE [err |-> "none", deck |-> Front(d1), discard |-> dp1,
                   card |-> Last(d1), reshuffled |-> empty]

\* _draw_or_take_card reading discard_pile[-1] where the source pops it.
DrawOrTakeCardTakeReads(a, d, dp, k) ==
    IF a = "d"
    THEN LET empty == (d = <<>>)
             d1 == IF empty THEN Shuffle(Front(dp), k) ELSE d
             dp1 == IF empty THEN <<Last(dp)>> ELSE dp
         IN  IF d1 = <<>>
             THEN [err |-> "IndexError:draw", deck |-> d1, discard |-> dp1,
                   card |-> NoCard, reshuffled |-> empty]
             ELSE [err |-> "none", deck |-> Front(d1), discard |-> dp1,
                   card |-> Last(d1), reshuffled |-> empty]
    ELSE IF a = "s"
    THEN [err |-> "none", deck |-> d, discard |-> dp, card |-> Last(dp),
          reshuffled |-> FALSE]
    ELSE [err |-> "none", deck |-> d, discard |-> dp, card |-> NoCard, reshuffled |-> FALSE]

\* _draw_or_take_card(action, deck, discard_pile), k the shuffle of a reshuffle.
DrawOrTakeCard(a, d, dp, k) ==
    IF a = "d"
    THEN LET empty == (d = <<>>)
             d1 == IF empty THEN Shuffle(Front(dp), k) ELSE d
             dp1 == IF empty THEN <<Last(dp)>> ELSE dp
         IN  IF d1 = <<>>
             THEN [err |-> "IndexError:draw", deck |-> d1, discard |-> dp1,
                   card |-> NoCard, reshuffled |-> empty]
             ELSE [err |-> "none", deck |-> Front(d1), discard |-> dp1,
                   card |-> Last(d1), reshuffled |-> empty]
    ELSE IF a = "s"
    THEN [err |-> "none", deck |-> d, discard |-> Front(dp), card |-> Last(dp),
          reshuffled |-> FALSE]
    ELSE [err |-> "none", deck |-> d, discard |-> dp, card |-> NoCard, reshuffled |-> FALSE]

\* _swap_card that does not put the replaced card on the discard pile.
SwapCardKeepsNothing(h, f, dp, card, fd, idx) ==
    IF fd = <<>> THEN [hand |-> h, face_up |-> f, discard |-> Append(dp, card)]
    ELSE IF card = NoCard THEN [hand |-> h, face_up |-> f, discard |-> dp]
    ELSE [hand |-> [h EXCEPT ![idx + 1] = card],
          face_up |-> f \cup {idx},
          discard |-> dp]

\* _swap_card that returns at once, the card dropped, when no slot is face-down.
SwapCardReturnsWhenFull(h, f, dp, card, fd, idx) ==
    IF fd = <<>> THEN [hand |-> h, face_up |-> f, discard |-> dp]
    ELSE IF card = NoCard THEN [hand |-> h, face_up |-> f, discard |-> dp]
    ELSE [hand |-> [h EXCEPT ![idx + 1] = card],
          face_up |-> f \cup {idx},
          discard |-> Append(dp, h[idx + 1])]

\* _swap_card that does not record the slot it swapped into as face-up.
SwapCardStaysFaceDown(h, f, dp, card, fd, idx) ==
    IF fd = <<>> THEN [hand |-> h, face_up |-> f, discard |-> Append(dp, card)]
    ELSE IF card = NoCard THEN [hand |-> h, face_up |-> f, discard |-> dp]
    ELSE [hand |-> [h EXCEPT ![idx + 1] = card],
          face_up |-> f,
          discard |-> Append(dp, h[idx + 1])]

\* _swap_card(drawn_card, face_down_indices, discard_pile) with swap_idx = idx.
SwapCard(h, f, dp, card, fd, idx) ==
    IF fd = <<>> THEN [hand |-> h, face_up |-> f, discard |-> Append(dp, card)]
    ELSE IF card = NoCard THEN [hand |-> h, face_up |-> f, discard |-> dp]
    ELSE [hand |-> [h EXCEPT ![idx + 1] = card],
          face_up |-> f \cup {idx},
          discard |-> Append(dp, h[idx + 1])]

\* _turn_card_over that chooses a slot and does not record it.
TurnCardOverForgets(f, fd, idx) == f

\* _turn_card_over that records the slot counted from one.
TurnCardOverFromOne(f, fd, idx) == IF fd = <<>> THEN f ELSE f \cup {idx + 1}

\* _turn_card_over(face_down_indices) with swap_idx = idx.
TurnCardOver(f, fd, idx) == IF fd = <<>> THEN f ELSE f \cup {idx}

\* A round loop that never looks at is_game_over.
LoopNeverStops == TRUE

\* The conditions of the round loop: while not is_game_over / if is_game_over: break.
LoopRuns == ~is_game_over

\* make_move returning true one slot early.
AllFaceUpAtThree(f) == Cardinality(f) >= 3

\* What make_move returns.
AllFaceUp(f) == Cardinality(f) = 4

\* The first half of make_move of a player of class cls: the peek at the
\* discard pile, _choose_action and _draw_or_take_card.
Obtain(cls) ==
    /\ pc = "playing"
    /\ LoopRuns
    /\ step = "choose"
    /\ turns < MaxTurns
    /\ players[cur].cls = cls
    /\ IF discard_pile = <<>>
       THEN /\ pc' = "crashed"
            /\ err' = "IndexError:peek"
            /\ UNCHANGED <<deck, discard_pile, step, action, drawn_card, draws, reshuffles, rng>>
       ELSE \E a \in ChooseAction(cls, Last(discard_pile)) :
                LET r == DrawOrTakeCard(a, deck, discard_pile, ShuffleIndex(rng))
                IN  /\ deck' = r.deck
                    /\ rng' = IF r.reshuffled THEN NextRandom(rng) ELSE rng
                    /\ discard_pile' = r.discard
                    /\ action' = a
                    /\ drawn_card' = r.card
                    /\ reshuffles' = IF r.reshuffled THEN reshuffles + 1 ELSE reshuffles
                    /\ draws' = IF a = "d" /\ r.err = "none"
                                THEN (IF r.reshuffled THEN 1 ELSE draws + 1)
                                ELSE IF r.reshuffled THEN 0 ELSE draws
                    /\ err' = r.err
                    /\ IF r.err = "none"
                       THEN pc' = pc /\ step' = "place"
                       ELSE pc' = "crashed" /\ step' = step
    /\ UNCHANGED <<num_players, given, arg_players, attrs, assigned, players, is_game_over,
                   hand, face_up_indices, cur, turn_count, result, turns, swap_idx, entered>>

\* The second half of make_move of a Random or Greedy player: swap, or discard
\* and turn over, or turn over only; then play_game stores what make_move
\* returned and moves on.
Place(cls) ==
    /\ pc = "playing"
    /\ step = "place"
    /\ players[cur].cls = cls
    /\ LET h == hand[cur]
           f == face_up_indices[cur]
           fd == FaceDownIndices(f)
       IN  \/ /\ action = "t"
              /\ \E idx \in TurnSlots(cls, h, fd, rng) :
                    face_up_indices' = [face_up_indices EXCEPT ![cur] = TurnCardOver(f, fd, idx)]
              /\ UNCHANGED <<hand, discard_pile>>
           \/ /\ action # "t"
              /\ drawn_card # NoCard
              /\ \E swap_choice \in ChooseSwapOrDiscard(cls, drawn_card) :
                    IF swap_choice = "s"
                    THEN \E idx \in SwapSlots(cls, h, fd, rng) :
                            LET r == SwapCard(h, f, discard_pile, drawn_card, fd, idx)
                            IN  /\ hand' = [hand EXCEPT ![cur] = r.hand]
                                /\ face_up_indices' = [face_up_indices EXCEPT ![cur] = r.face_up]
                                /\ discard_pile' = r.discard
                    ELSE \E idx \in TurnSlots(cls, h, fd, rng) :
                            /\ discard_pile' = Append(discard_pile, drawn_card)
                            /\ face_up_indices' =
                                   [face_up_indices EXCEPT ![cur] = TurnCardOver(f, fd, idx)]
                            /\ UNCHANGED hand
    /\ rng' = IF cls = "RandomPlayer" /\ FaceDownIndices(face_up_indices[cur]) # <<>>
               THEN NextRandom(rng) ELSE rng
    /\ is_game_over' = AllFaceUp(face_up_indices'[cur])
    /\ cur' = IF is_game_over' THEN cur ELSE (cur % Len(players)) + 1
    /\ turn_count' = IF ~is_game_over' /\ cur = Len(players) THEN turn_count + 1 ELSE turn_count
    /\ turns' = turns + 1
    /\ step' = "choose"
    /\ action' = "none"
    /\ drawn_card' = NoCard
    /\ UNCHANGED <<pc, num_players, given, arg_players, attrs, assigned, players, deck,
                   result, err, draws, reshuffles, swap_idx, entered>>

\* The lines a Human may enter at a slot prompt: the four slots, a number
\* out of range and a line that is no number.
SlotInputs == {"0", "1", "2", "3", "4", "x"}

PromptSteps == {"swap_prompt", "turn_prompt"}

\* One pass of the prompt loop with its exit test inverted on the face-up check:
\* any slot within range(4) ends it.
SlotPromptInRange(input, idx, fd) ==
    LET read == IF IsDigit(input) THEN IntOf(input) ELSE idx
    IN  [swap_idx |-> read, exits |-> read \in 0..3]

\* One pass of the prompt loop of HumanPlayer._swap_card / _turn_card_over,
\* entered with swap_idx = idx: int(input()) raises ValueError before the
\* assignment when the line is no number; a number out of range or of a
\* face-up slot is assigned and reported; the loop ends when swap_idx is in
\* face_down_indices.
SlotPrompt(input, idx, fd) ==
    LET read == IF IsDigit(input) THEN IntOf(input) ELSE idx
    IN  [swap_idx |-> read, exits |-> \E j \in 1..Len(fd) : fd[j] = read]

\* The end of a Human's make_move, which leaves hand h2, face-up set f2 and
\* discard pile dp2, and of the loop body of play_game; the locals of the
\* prompt loop are gone.
EndTurn(h2, f2, dp2) ==
    /\ hand' = [hand EXCEPT ![cur] = h2]
    /\ face_up_indices' = [face_up_indices EXCEPT ![cur] = f2]
    /\ discard_pile' = dp2
    /\ is_game_over' = AllFaceUp(f2)
    /\ cur' = IF is_game_over' THEN cur ELSE (cur % Len(players)) + 1
    /\ turn_count' = IF ~is_game_over' /\ cur = Len(players) THEN turn_count + 1 ELSE turn_count
    /\ turns' = turns + 1
    /\ step' = "choose"
    /\ action' = "none"
    /\ drawn_card' = NoCard
    /\ swap_idx' = -1
    /\ entered' = ""

\* The start of a prompt loop: swap_idx = -1, with the discard pile as dp2.
AskSlot(prompt, dp2) ==
    /\ step' = prompt
    /\ swap_idx' = -1
    /\ discard_pile' = dp2
    /\ UNCHANGED <<hand, face_up_indices, is_game_over, cur, turn_count, turns, action,
                   drawn_card, entered>>

HumanObtain == Obtain("HumanPlayer")

\* The second half of HumanPlayer.make_move up to the slot prompt: the answer
\* to swap-or-discard, the discard of the drawn card, and the guards of
\* _swap_card and _turn_card_over on a hand with no face-down slot.
HumanPlace ==
    /\ pc = "playing"
    /\ step = "place"
    /\ players[cur].cls = "HumanPlayer"
    /\ LET h == hand[cur]
           f == face_up_indices[cur]
           fd == FaceDownIndices(f)
       IN  \/ /\ action = "t"
              /\ IF fd = <<>>
                 THEN EndTurn(h, TurnCardOver(f, fd, -1), discard_pile)
                 ELSE AskSlot("turn_prompt", discard_pile)
           \/ /\ action # "t"
              /\ drawn_card # NoCard
              /\ \E swap_choice \in ChooseSwapOrDiscard("HumanPlayer", drawn_card) :
                    IF swap_choice = "s"
                    THEN IF fd = <<>>
                         THEN LET r == SwapCard(h, f, discard_pile, drawn_card, fd, -1)
                              IN  EndTurn(r.hand, r.face_up, r.discard)
                         ELSE AskSlot("swap_prompt", discard_pile)
                    ELSE IF fd = <<>>
                         THEN EndTurn(h, TurnCardOver(f, fd, -1),
                                      Append(discard_pile, drawn_card))
                         ELSE AskSlot("turn_prompt", Append(discard_pile, drawn_card))
    /\ UNCHANGED <<pc, num_players, given, arg_players, attrs, assigned, players, deck,
                   result, err, draws, reshuffles, rng>>

\* One line entered at the slot prompt of _swap_card or _turn_card_over, and,
\* when it ends the loop, the rest of the turn.
HumanEnter ==
    /\ pc = "playing"
    /\ step \in PromptSteps
    /\ players[cur].cls = "HumanPlayer"
    /\ \E input \in SlotInputs :
          LET h == hand[cur]
              f == face_up_indices[cur]
              fd == FaceDownIndices(f)
              p == SlotPrompt(input, swap_idx, fd)
          IN  IF p.exits
              THEN IF step = "swap_prompt"
                   THEN LET r == SwapCard(h, f, discard_pile, drawn_card, fd, p.swap_idx)
                        IN  EndTurn(r.hand, r.face_up, r.discard)
                   ELSE EndTurn(h, TurnCardOver(f, fd, p.swap_idx), discard_pile)
              ELSE /\ entered' = input
                   /\ swap_idx' = p.swap_idx
                   /\ UNCHANGED <<hand, face_up_indices, discard_pile, is_game_over, cur,
                                  turn_count, turns, step, action, drawn_card>>
    /\ UNCHANGED <<pc, num_players, given, arg_players, attrs, assigned, players, deck,
                   result, err, draws, reshuffles, rng>>
RandomObtain == Obtain("RandomPlayer")
RandomPlace == Place("RandomPlayer")
GreedyObtain == Obtain("GreedyPlayer")
GreedyPlace == Place("GreedyPlayer")

\* The loop of end_game over the first i players:
\* final_scores.append((player.name, score)).
RECURSIVE FinalScores(_)
FinalScores(i) ==
    IF i = 0 THEN <<>>
    ELSE Append(FinalScores(i - 1), <<players[i].name, CalculateScore(hand[i])>>)

\* end_game, called when the round loop has ended.
EndGame ==
    /\ pc = "playing"
    /\ step = "choose"
    /\ ~LoopRuns
    /\ \E final_scores \in {FinalScores(Len(players))} : result' = SortByScore(final_scores)
    /\ pc' = "done"
    /\ UNCHANGED <<num_players, given, arg_players, attrs, assigned, players, deck,
                   discard_pile, is_game_over, hand, face_up_indices, cur, turn_count,
                   step, action, drawn_card, err, turns, draws, reshuffles, rng,
                   swap_idx, entered>>

Next ==
    \/ Construct
    \/ PlayGame
    \/ HumanObtain
    \/ HumanPlace
    \/ HumanEnter
    \/ RandomObtain
    \/ RandomPlace
    \/ GreedyObtain
    \/ GreedyPlace
    \/ EndGame

Spec == Init /\ [][Next]_vars

(***************************************************************************)
(* Scoring on its own: end_game on a game whose two players hold the hands *)
(* a caller gives them, the second hand a reordering of the first.         *)
(***************************************************************************)
\* card_values in another order, so that a few ranks cover numbers, faces,
\* the ace and the king.
RankPool == <<"7", "2", "10", "K", "A", "J", "Q", "3", "4", "5", "6", "8", "9">>

PoolRanks == {RankPool[i] : i \in 1..Min(NumPoolRanks, Len(RankPool))}

\* The hands of four cards of pool ranks, slot i holding suit i.
PoolHands == {[i \in 1..4 |-> Card(r[i], suits[i])] : r \in [1..4 -> PoolRanks]}

InitScore ==
    /\ pc = "playing"
    /\ num_players = 2
    /\ given = TRUE
    /\ arg_players = Team(<<"RandomPlayer", "RandomPlayer">>)
    /\ attrs = {"players", "deck", "discard_pile", "is_game_over"}
    /\ assigned = <<TRUE, TRUE>>
    /\ players = arg_players
    /\ deck = <<>>
    /\ discard_pile = <<>>
    /\ is_game_over = TRUE
    /\ \E h \in PoolHands, q \in Permutations(1..4) :
          hand = <<h, [i \in 1..4 |-> h[q[i]]]>>
    /\ face_up_indices = <<0..3, 0..3>>
    /\ cur = 1
    /\ turn_count = 0
    /\ step = "choose"
    /\ action = "none"
    /\ drawn_card = NoCard
    /\ result = <<>>
    /\ err = "none"
    /\ turns = 0
    /\ draws = 0
    /\ reshuffles = 0
    /\ rng = 0
    /\ swap_idx = -1
    /\ entered = ""

NextScore == EndGame

SpecScore == InitScore /\ [][NextScore]_vars

(***************************************************************************)
(* The round loop on a table a caller hands over: make_move takes the deck *)
(* and the discard pile as arguments.  The hands are dealt from a shuffled *)
(* deck; the other cards are split between a deck of at most MaxTableDeck  *)
(* cards and the discard pile, as after that many draws and discards; the  *)
(* players' slots are all face-down or all face-up.                        *)
(***************************************************************************)
TableTeams ==
    { Team(<<"RandomPlayer", "GreedyPlayer">>),
      Team(<<"GreedyPlayer", "HumanPlayer">>),
      Team(<<"HumanPlayer", "GreedyPlayer">>) }

\* The face-up sets of a table: all slots face-down or all face-up; with a
\* Human to move first, whose turns branch most, all face-up only.
TableFaceUp(team) == IF team[1].cls = "HumanPlayer" THEN {0..3} ELSE {{}, 0..3}

InitTable ==
    /\ pc = "playing"
    /\ arg_players \in TableTeams
    /\ num_players = Len(arg_players)
    /\ given = TRUE
    /\ attrs = {"players", "deck", "discard_pile", "is_game_over"}
    /\ assigned = [i \in 1..Len(arg_players) |-> TRUE]
    /\ players = arg_players
    /\ is_game_over = FALSE
    /\ \E k \in 1..NumShuffles, n \in 0..MaxTableDeck :
          LET dealt == DealCards(1, Shuffle(OrderedDeck, k),
                                 [i \in 1..Len(arg_players) |-> <<>>],
                                 [i \in 1..Len(arg_players) |-> {}])
          IN  /\ hand = dealt.hand
              /\ deck = SubSeq(dealt.deck, 1, n)
              /\ discard_pile = SubSeq(dealt.deck, n + 1, Len(dealt.deck))
              /\ draws = Len(dealt.deck) - 1 - n
    /\ \E up \in TableFaceUp(arg_players) :
          face_up_indices = [i \in 1..Len(arg_players) |-> up]
    /\ cur = 1
    /\ turn_count = 1
    /\ step = "choose"
    /\ action = "none"
    /\ drawn_card = NoCard
    /\ result = <<>>
    /\ err = "none"
    /\ turns = 0
    /\ reshuffles = 0
    /\ rng \in 0..(NumSeeds - 1)
    /\ swap_idx = -1
    /\ entered = ""

NextTable ==
    \/ HumanObtain
    \/ HumanPlace
    \/ HumanEnter
    \/ RandomObtain
    \/ RandomPlace
    \/ GreedyObtain
    \/ GreedyPlace
    \/ EndGame

SpecTable == InitTable /\ [][NextTable]_vars

\* The program with play_game called on the same game any number of times.
NextReplay ==
    \/ Next
    \/ PlayGameAgain

SpecReplay == Init /\ [][NextReplay]_vars

\* Rounds from both starts: a fresh construction, or a table handed over.
InitRounds == Init \/ InitTable

SpecRounds == InitRounds /\ [][Next]_vars

\* The steps that wait for nobody: every one but a Human's, who may never answer.
NextAuto ==
    \/ Construct
    \/ PlayGame
    \/ RandomObtain
    \/ RandomPlace
    \/ GreedyObtain
    \/ GreedyPlace
    \/ EndGame

\* The program is single-threaded and runs on until it has to wait for input.
FairSpec == Spec /\ WF_vars(NextAuto)

(***************************************************************************)
(* Properties.                                                             *)
(***************************************************************************)
RECURSIVE HandsFrom(_)
HandsFrom(i) == IF i > Len(hand) THEN <<>> ELSE hand[i] \o HandsFrom(i + 1)

\* The cards of the deck, the discard pile and all hands, one after another.
AllCards == deck \o discard_pile \o HandsFrom(1)

DeckSet == {OrderedDeck[i] : i \in 1..Len(OrderedDeck)}

\* Between two turns of a round, or after its last turn.
TurnBoundary == pc \in {"playing", "done"} /\ step = "choose"

\* C1: at every turn boundary of a round of 2 to 4 players (after the deal and
\* the seeding of the discard pile, and after each make_move), the deck, the
\* discard pile and the hands together hold the 52 cards, each exactly once.
C1_CardsConserved ==
    TurnBoundary =>
        /\ Len(players) \in 2..4
        /\ Len(AllCards) = 52
        /\ {AllCards[i] : i \in 1..Len(AllCards)} = DeckSet
        /\ Cardinality(DeckSet) = 52

\* A round has ended after draws, takes and turn-overs by four players.
C1_Witness ==
    /\ pc = "done"
    /\ Len(players) = 4
    /\ draws >= 3
    /\ Len(discard_pile) >= 4
    /\ \E i \in 1..Len(players) : Cardinality(face_up_indices[i]) = 4

\* C2: make_move returns true exactly when the four slots of the player who
\* moved are all face-up after the turn, and once it has returned true nobody
\* takes another turn: the next step is end_game scoring the hands as they are.
C2_RoundStopsAtFirstTrue ==
    /\ [][(pc = "playing" /\ step # "choose" /\ step' = "choose")
            => (is_game_over' <=> \A i \in 0..3 : i \in face_up_indices'[cur])]_vars
    /\ [][(pc = "playing" /\ is_game_over)
            => /\ pc' = "done"
               /\ UNCHANGED <<hand, face_up_indices, deck, discard_pile, turns>>]_vars

\* The round loop has stopped while another player still has a face-down slot.
C2_Witness ==
    /\ pc = "playing"
    /\ is_game_over
    /\ \E i \in 1..Len(players) : Cardinality(face_up_indices[i]) < 4
    /\ \E i \in 1..Len(players) : Cardinality(face_up_indices[i]) = 4

\* C8: a draw never fails during a round: when a player is about to move, the
\* deck is non-empty or the discard pile has at least two cards to refill it
\* from, and no pop of the deck by a draw raises an error.
C8_DrawNeverFails ==
    /\ err # "IndexError:draw"
    /\ (pc = "playing" /\ step = "choose" /\ LoopRuns)
          => (deck # <<>> \/ Len(discard_pile) >= 2)

\* A card has just been drawn from a deck that was empty and was refilled.
C8_Witness ==
    /\ pc = "playing"
    /\ step = "place"
    /\ action = "d"
    /\ drawn_card # NoCard
    /\ reshuffles = 1
    /\ draws = 1

\* C9: in a round of n players the cards popped from the deck by draws since
\* the start of play, or since the last reshuffle, never exceed 52 - 4n - 1;
\* with the cards still in the deck they never exceed that number either,
\* which is why a reshuffle comes first.
C9_DrawsBounded ==
    pc \in {"playing", "done", "crashed"} /\ Len(players) > 0 /\ err # "IndexError:deal" =>
        /\ draws <= 52 - 4 * Len(players) - 1
        /\ draws + Len(deck) <= 52 - 4 * Len(players) - 1

\* Two players have drawn the deck empty: the bound is met, and a reshuffle is next.
C9_Witness ==
    /\ pc = "playing"
    /\ step = "place"
    /\ action = "d"
    /\ Len(players) = 2
    /\ deck = <<>>
    /\ draws = 52 - 4 * 2 - 1
    /\ reshuffles = 0

\* The arguments for which C10 says construction fails.
BadArguments ==
    \/ ~(num_players \in 2..4)
    \/ given /\ Len(arg_players) # num_players
    \/ given /\ \E i \in 1..Len(arg_players) : arg_players[i].cls \notin PlayerClasses

\* C10: with a player count outside 2..4, or a player list of another length
\* than the count, or a player list holding an element that is no Player,
\* construction raises an error, creates no deck and assigns no player.
C10_BadArgumentsRejected ==
    (pc # "new" /\ BadArguments) =>
        /\ pc = "ctor_failed"
        /\ err \in {"ValueError", "TypeError"}
        /\ attrs = {}
        /\ deck = <<>>
        /\ players = <<>>
        /\ \A i \in 1..Len(arg_players) : ~assigned[i]

\* Construction has failed on a list whose first element is a Player and
\* whose second is not.
C10_Witness ==
    /\ pc = "ctor_failed"
    /\ err = "TypeError"
    /\ given
    /\ Len(arg_players) = 2
    /\ num_players = 2
    /\ IsPlayer(arg_players[1])
    /\ ~IsPlayer(arg_players[2])

TwoRandoms ==
    /\ Len(players) = 2
    /\ \A i \in 1..2 : players[i].cls = "RandomPlayer"

\* C3: a round of two Random players ends whatever they choose: it never has
\* more than 3 * 2 + 1 turns, and from the constructed game on play_game gets
\* to set the game-over flag and to return the list of results.
C3_TwoRandomsTerminate ==
    /\ [](TwoRandoms => turns <= 7)
    /\ (TwoRandoms /\ pc = "constructed")
          ~> (pc = "done" /\ is_game_over /\ err = "none" /\ Len(result) = 2)

\* A round of two Random players has returned its results.
C3_Witness ==
    /\ TwoRandoms
    /\ pc = "done"
    /\ is_game_over
    /\ Len(result) = 2
    /\ turns = 7

\* The position in self.players of the player called name.
PlayerIndex(name) == CHOOSE i \in 1..Len(players) : players[i].name = name

\* C4: end_game returns one (name, score) pair per player, the score being
\* that of the player's hand, in non-decreasing order of score; players of
\* equal score keep the order of the player list; the first entry has the
\* least score.
C4_ResultRanked ==
    pc = "done" =>
        LET n == Len(players)
        IN  /\ Len(result) = n
            /\ \A i \in 1..n : Cardinality({k \in 1..n : result[k][1] = players[i].name}) = 1
            /\ \A k \in 1..n :
                  \E i \in 1..n : result[k] = <<players[i].name, CalculateScore(hand[i])>>
            /\ \A k \in 1..(n - 1) : result[k][2] <= result[k + 1][2]
            /\ \A k \in 1..n : \A l \in (k + 1)..n :
                  result[k][2] = result[l][2]
                      => PlayerIndex(result[k][1]) < PlayerIndex(result[l][1])
            /\ \A i \in 1..n : result[1][2] <= CalculateScore(hand[i])

\* Results in which two players tie and the winner is not the first player.
C4_Witness ==
    /\ pc = "done"
    /\ \E k \in 1..(Len(result) - 1) : result[k][2] = result[k + 1][2]
    /\ result[1][1] # players[1].name

\* The value of a rank as C5 gives it.
ClaimedValue(rank) ==
    ("2" :> 2 @@ "3" :> 3 @@ "4" :> 4 @@ "5" :> 5 @@ "6" :> 6 @@ "7" :> 7 @@ "8" :> 8
        @@ "9" :> 9 @@ "10" :> 10 @@ "J" :> 10 @@ "Q" :> 10 @@ "A" :> 10 @@ "K" :> 0)[rank]

\* The score of a hand as C5 gives it: each distinct rank counts its value
\* times the number of its cards modulo 2.
ClaimedScore(h) ==
    LET ranks == {h[i][1] : i \in 1..Len(h)}
        count(r) == Cardinality({i \in 1..Len(h) : h[i][1] = r})
    IN  SumOver(ranks, [r \in ranks |-> ClaimedValue(r) * (count(r) % 2)])

\* The score end_game returned for the player called name.
ScoreOf(name) == result[CHOOSE k \in 1..Len(result) : result[k][1] = name][2]

C6_ScoreIgnoresOrder ==
    (pc = "done" /\ Len(players) = 2 /\ Len(hand[1]) = 4) =>
        ((\E q \in Permutations(1..4) : \A i \in 1..4 : hand[2][i] = hand[1][q[i]])
            => ScoreOf(players[1].name) = ScoreOf(players[2].name))

\* A hand with a pair apart and the same hand with the pair together have
\* been scored.
C6_Witness ==
    /\ pc = "done"
    /\ [i \in 1..4 |-> hand[1][i][1]] = <<"7", "2", "7", "A">>
    /\ [i \in 1..4 |-> hand[2][i][1]] = <<"7", "7", "A", "2">>
    /\ ScoreOf(players[1].name) = 12

\* Sequences a and b hold the same cards the same number of times.
SameCards(a, b) ==
    /\ Len(a) = Len(b)
    /\ \A i \in 1..Len(a) : Occurrences(a, a[i]) = Occurrences(b, a[i])
    /\ \A i \in 1..Len(b) : Occurrences(a, b[i]) = Occurrences(b, b[i])

\* C7: a draw from an empty deck with at least two cards on the discard pile
\* reshuffles: the discard pile is left with its former top card alone, and
\* the deck, before the drawn card is popped from it, holds the cards of the
\* former discard pile but that top card.
C7_Reshuffle ==
    [][(/\ pc = "playing" /\ step = "choose" /\ step' = "place" /\ action' = "d"
        /\ deck = <<>> /\ Len(discard_pile) >= 2)
          => /\ discard_pile' = <<Last(discard_pile)>>
             /\ drawn_card' # NoCard
             /\ SameCards(Append(deck', drawn_card'), Front(discard_pile))
             /\ reshuffles' = reshuffles + 1]_vars

\* A card has just been drawn from a deck refilled by a reshuffle.
C7_Witness ==
    /\ pc = "playing"
    /\ step = "place"
    /\ action = "d"
    /\ reshuffles = 1
    /\ draws = 1
    /\ Len(discard_pile) = 1
    /\ Len(deck) = 52 - 4 * Len(players) - 2

\* C11: the player list is optional: construction with a count in 2..4 and no
\* list succeeds, with that many interactive players, a shuffled deck of the 52
\* cards, an empty discard pile and the game-over flag false.
C11_DefaultConstructionSucceeds ==
    (pc # "new" /\ ~given /\ num_players \in 2..4) =>
        /\ pc # "ctor_failed"
        /\ err = "none"
        /\ Len(players) = num_players
        /\ \A i \in 1..Len(players) : players[i].cls = "HumanPlayer"
        /\ pc = "constructed" =>
              /\ {deck[i] : i \in 1..Len(deck)} = DeckSet
              /\ Len(deck) = 52
              /\ discard_pile = <<>>
              /\ ~is_game_over

\* Construction without a player list has failed for a count within 2..4.
C11_Witness ==
    /\ pc = "ctor_failed"
    /\ ~given
    /\ num_players \in 2..4
    /\ err = "TypeError"
    /\ attrs = {}

\* C12: play_game called with fewer than 4n + 1 cards in the deck aborts the
\* round before it starts: no hand is dealt or replaced, no card leaves the
\* deck, the discard pile is unchanged and no turn is taken.
C12_ShortDeckAborts ==
    [][(pc \in {"constructed", "done"} /\ pc' # pc /\ Len(deck) < 4 * Len(players) + 1)
          => /\ pc' \in {"aborted", "crashed"}
             /\ hand' = hand
             /\ deck' = deck
             /\ discard_pile' = discard_pile
             /\ turns' = turns]_vars

\* A repeated play_game has failed in the middle of the deal: the first
\* player's hand is replaced and the deck is emptied.
C12_Witness ==
    /\ pc = "crashed"
    /\ err = "IndexError:deal"
    /\ deck = <<>>
    /\ turns > 0

\* C13: from the deal until the round ends, whoever plays and whatever they
\* choose, every hand has exactly 4 slots and every set of face-up indices is
\* a subset of {0, 1, 2, 3}.
C13_HandShape ==
    (pc \in {"playing", "done"}) =>
        \A i \in 1..Len(players) :
            /\ Len(hand[i]) = 4
            /\ face_up_indices[i] \subseteq 0..3

\* A round of four players, a Human among them, has ended after swaps into
\* the hands and turn-overs.
C13_Witness ==
    /\ pc = "done"
    /\ Len(players) = 4
    /\ \E i \in 1..Len(players) : players[i].cls = "HumanPlayer"
    /\ \E i \in 1..Len(players) : face_up_indices[i] = 0..3
    /\ Len(discard_pile) >= 6

\* A line that is no number, a number outside 0..3, or the number of a slot
\* of the face-up set f.
InvalidSlotInput(s, f) == ~IsDigit(s) \/ IntOf(s) \notin 0..3 \/ IntOf(s) \in f

\* C14: at a Human's slot prompt, a line that is no number, is out of range or
\* names a face-up slot changes neither the hand, the face-up set, the deck
\* nor the discard pile, and the prompt comes again; nothing in a turn touches
\* the hand or the face-up set before the prompt loop ends; and the slot then
\* swapped or turned over is one that was face-down.
C14_InvalidInputRepeatsPrompt ==
    /\ [][(/\ step \in PromptSteps
           /\ entered' \in SlotInputs
           /\ InvalidSlotInput(entered', face_up_indices[cur]))
            => /\ step' = step
               /\ pc' = pc
               /\ cur' = cur
               /\ UNCHANGED <<hand, face_up_indices, deck, discard_pile, turns>>]_vars
    /\ [][(pc = "playing" /\ players[cur].cls = "HumanPlayer" /\ step' # "choose")
            => UNCHANGED <<hand, face_up_indices>>]_vars
    /\ [][(step \in PromptSteps /\ step' = "choose")
            => \E s \in (0..3) \ face_up_indices[cur] :
                  /\ face_up_indices' =
                        [face_up_indices EXCEPT ![cur] = face_up_indices[cur] \cup {s}]
                  /\ IF step = "swap_prompt"
                     THEN /\ hand' = [hand EXCEPT ![cur][s + 1] = drawn_card]
                          /\ discard_pile' = Append(discard_pile, hand[cur][s + 1])
                     ELSE UNCHANGED <<hand, discard_pile>>]_vars

\* The swap prompt is open after a face-up slot and then a line that is no
\* number were entered.
C14_Witness ==
    /\ pc = "playing"
    /\ step = "swap_prompt"
    /\ entered = "x"
    /\ swap_idx \in face_up_indices[cur]

\* C15: a turn whose action is 't' obtains no card: from the choice of the
\* action to the end of the turn the deck, the discard pile and every hand stay
\* as they are, and the turn ends with exactly one slot of the active player,
\* face-down until then, face-up, and nobody else's face-up set changed.
C15_TurnOverOnly ==
    /\ [][(pc = "playing" /\ step = "choose" /\ action' = "t")
            => /\ drawn_card' = NoCard
               /\ UNCHANGED <<deck, discard_pile, hand, face_up_indices>>]_vars
    /\ [][(pc = "playing" /\ action = "t")
            => /\ UNCHANGED <<deck, discard_pile, hand>>
               /\ IF step' = "choose"
                  THEN \E s \in (0..3) \ face_up_indices[cur] :
                          face_up_indices' =
                             [face_up_indices EXCEPT ![cur] = face_up_indices[cur] \cup {s}]
                  ELSE UNCHANGED face_up_indices]_vars

\* After earlier turns a player has chosen to turn a card over and holds no card.
C15_Witness ==
    /\ pc = "playing"
    /\ step = "place"
    /\ action = "t"
    /\ drawn_card = NoCard
    /\ turns >= 2

\* C16: a turn in which a card was obtained, by a player with a face-down slot,
\* ends in one of two ways: the card sits in a slot that was face-down and is
\* now face-up, and the card it replaced is the top of the discard pile; or the
\* card is the top of the discard pile, the hand is as it was and one slot that
\* was face-down is now face-up.
C16_SwapOrDiscard ==
    [][(/\ pc = "playing"
        /\ action \in {"s", "d"}
        /\ step # "choose"
        /\ step' = "choose"
        /\ face_up_indices[cur] # 0..3)
         => /\ drawn_card # NoCard
            /\ \E s \in (0..3) \ face_up_indices[cur] :
                  /\ face_up_indices' =
                        [face_up_indices EXCEPT ![cur] = face_up_indices[cur] \cup {s}]
                  /\ \/ /\ hand' = [hand EXCEPT ![cur][s + 1] = drawn_card]
                        /\ Last(discard_pile') = hand[cur][s + 1]
                     \/ /\ hand' = hand
                        /\ Last(discard_pile') = drawn_card]_vars

\* The first turn of a round is over: a card was drawn from the deck and the
\* discard pile has grown by one card.
C16_Witness ==
    /\ pc = "playing"
    /\ step = "choose"
    /\ turns = 1
    /\ draws = 1
    /\ Len(discard_pile) = 2
    /\ Cardinality(face_up_indices[1]) = 1

\* C17: for a player with no face-down slot, a turn-over-only turn changes
\* nothing at all, and a turn with an obtained card ends with that card
\* appended to the discard pile, whether a swap or a discard was chosen, the
\* hand and the face-up set as they were.
C17_NoFaceDownSlot ==
    /\ [][(/\ pc = "playing"
           /\ face_up_indices[cur] = 0..3
           /\ (action = "t" \/ action' = "t"))
            => UNCHANGED <<deck, discard_pile, hand, face_up_indices>>]_vars
    /\ [][(/\ pc = "playing"
           /\ face_up_indices[cur] = 0..3
           /\ action \in {"s", "d"}
           /\ step' = "choose")
            => /\ drawn_card # NoCard
               /\ discard_pile' = Append(discard_pile, drawn_card)
               /\ UNCHANGED <<deck, hand, face_up_indices>>]_vars

\* A Human whose four slots were face-up has moved, and a card obtained in
\* that turn lies on the discard pile.
C17_Witness ==
    /\ pc = "playing"
    /\ step = "choose"
    /\ turns = 1
    /\ players[1].cls = "HumanPlayer"
    /\ face_up_indices[1] = 0..3
    /\ face_up_indices[2] = 0..3
    /\ Len(deck) = 1
    /\ Len(discard_pile) = 43

\* The value C18 reads off a card.
GreedyValue(card) == ClaimedValue(RankOf(card))

C19_OneSlotPerTurn ==
    /\ [][(pc = "playing" /\ step # "choose" /\ step' = "choose")
            => /\ turns' = turns + 1
               /\ Cardinality(face_up_indices'[cur]) = Cardinality(face_up_indices[cur]) + 1
               /\ \A i \in 1..Len(players) :
                     i # cur => /\ hand'[i] = hand[i]
                                /\ face_up_indices'[i] = face_up_indices[i]]_vars
    /\ [](pc = "done" =>
            /\ turns = 3 * Len(players) + 1
            /\ cur = 1
            /\ Cardinality(face_up_indices[1]) = 4
            /\ \A i \in 2..Len(players) : Cardinality(face_up_indices[i]) = 3)

\* A round of four players has been scored after its thirteenth turn.
C19_Witness ==
    /\ pc = "done"
    /\ Len(players) = 4
    /\ turns = 13
    /\ Len(result) = 4

\* C20: in a round started on a game just constructed with 2 to 4 players the
\* deck is never empty when a player is to move, so no draw finds it empty
\* and the reshuffle of _draw_or_take_card never runs.
C20_NoReshuffleInFreshRound ==
    /\ reshuffles = 0
    /\ (pc = "playing" /\ step = "choose") => deck # <<>>
    /\ (pc = "playing" /\ step # "choose" /\ action = "d") => draws >= 1

\* Late in a round of four players a card has been drawn from the deck, after
\* several earlier draws.
C20_Witness ==
    /\ pc = "playing"
    /\ Len(players) = 4
    /\ step = "place"
    /\ action = "d"
    /\ turns >= 11
    /\ draws >= 5

\* The cards a turn in progress still holds and has to put on the discard
\* pile before it ends: the card taken or drawn, until it is swapped in or
\* discarded.
Owed == IF step \in {"place", "swap_prompt"} /\ drawn_card # NoCard THEN 1 ELSE 0

\* C21: the discard pile is non-empty at the start of every turn of a round,
\* so the peek at discard_pile[-1] and the take never fail.  Counted with the
\* card the turn in progress still holds, the size of the pile never
\* decreases from one step of a round to the next, except in a reshuffle,
\* which leaves it at one card with the drawn card in hand; a turn that takes
\* the top card keeps that count unchanged in each of its steps, so it ends
\* with exactly one card put back and the pile as large as it found it.
C21_DiscardPileKept ==
    /\ []((pc = "playing" /\ step = "choose") => discard_pile # <<>>)
    /\ [](err # "IndexError:peek")
    /\ [][(pc = "playing" /\ pc' = "playing") =>
             IF reshuffles' # reshuffles
             THEN Len(discard_pile') = 1 /\ Owed' = 1
             ELSE Len(discard_pile') + Owed' >= Len(discard_pile) + Owed]_vars
    /\ [][(pc = "playing" /\ pc' = "playing" /\ (action = "s" \/ action' = "s")) =>
             /\ Len(discard_pile') + Owed' = Len(discard_pile) + Owed
             /\ (step = "choose") => (Len(discard_pile') = Len(discard_pile) - 1 /\ Owed' = 1)
             /\ (step' = "choose") => (Owed' = 0 /\ discard_pile' # <<>>)]_vars

\* After a reshuffle and its turn, the next turn has taken the top card of
\* the discard pile and holds it, one card left on the pile.
C21_Witness ==
    /\ pc = "playing"
    /\ reshuffles >= 1
    /\ action = "s"
    /\ step = "place"
    /\ drawn_card # NoCard
    /\ Len(discard_pile) = 1
    /\ turns >= 1

\* The hands as one of the shuffles of the constructor deals them.
DealtHands(k) ==
    DealCards(1, Shuffle(OrderedDeck, k), [i \in 1..Len(players) |-> <<>>],
              [i \in 1..Len(players) |-> {}]).hand

\* C22: during a round no step removes an index from a player's face-up set,
\* and no step replaces the card of a slot that is face-up: a card of a hand
\* changes only in the mover's hand, in a slot that was face-down when the
\* turn started (the face-up sets change only as a turn ends), which receives
\* the card the turn obtained and is face-up from then on.
C22_FaceUpFrozen ==
    [][(pc = "playing" /\ pc' \in {"playing", "done"}) =>
          \A i \in 1..Len(players) :
             /\ face_up_indices[i] \subseteq face_up_indices'[i]
             /\ \A j \in face_up_indices[i] : hand'[i][j + 1] = hand[i][j + 1]
             /\ \A j \in 0..3 :
                   hand'[i][j + 1] # hand[i][j + 1] =>
                      /\ i = cur
                      /\ j \notin face_up_indices[i]
                      /\ j \in face_up_indices'[i]
                      /\ hand'[i][j + 1] = drawn_card
                      /\ step' = "choose"]_vars

\* Between two turns a player has two or more face-up slots, each holding a
\* card that was swapped in, not dealt: the slot swapped first has been
\* through a later swap of the same player.
C22_Witness ==
    /\ pc = "playing"
    /\ step = "choose"
    /\ reshuffles = 0
    /\ turns >= 3
    /\ \E i \in 1..Len(players) :
          /\ Cardinality(face_up_indices[i]) >= 2
          /\ \A j \in face_up_indices[i] :
                \A k \in 1..NumShuffles : hand[i][j + 1] # DealtHands(k)[i][j + 1]

====
